---- MODULE Spec2Model ----
(***************************************************************************)
(* NetTrackr: the periodic system-metrics sampler (monitor.py) and the     *)
(* port scan (main.py, scan_ports).                                        *)
(*                                                                         *)
(* SystemMonitor owns a flag `running`, a daemon thread per successful     *)
(* start() that runs _monitor_loop, and one JSON file per day to which     *)
(* every tick appends its snapshot.  The foreground calls start(), stop()  *)
(* and get_latest_metrics().  Python switches threads between bytecodes,   *)
(* so every read or write of a shared attribute is a step of its own.      *)
(***************************************************************************)
EXTENDS Integers, Sequences, FiniteSets, TLC

(***************************************************************************)
(* Bounds of the model.                                                    *)
(***************************************************************************)
\* thread slots for _monitor_loop threads alive at the same time
MaxLoops == 2
\* collections (ticks) the background loops may begin in one behaviour
MaxTicks == 2
\* longest port list handed to scan_ports
MaxPorts == 2

(***************************************************************************)
(* Program constants.                                                      *)
(***************************************************************************)
\* time.sleep(5) in the except branch of _monitor_loop
BackoffSeconds == 5
\* DEFAULT_CONFIG features.monitoring.interval_seconds
DefaultInterval == 60
\* DEFAULT_CONFIG features.port_scan.timeout
DefaultPortTimeout == 1
\* DEFAULT_CONFIG security.max_concurrent_scans
DefaultMaxConcurrentScans == 5

\* foreground threads that call start() and stop()
Callers == {"main", "other"}
Loops == 1..MaxLoops

\* interval_seconds values a config file may hold (config.py validates
\* nothing): a negative one makes time.sleep raise ValueError
Intervals == {-1, DefaultInterval}

\* the categories _collect_metrics knows, and a name it does not know
Categories == {"cpu", "memory", "disk", "network"}
MetricNames == Categories \cup {"gpu"}
DefaultMetrics == {"cpu", "memory", "disk", "network"}

\* the psutil calls of _collect_metrics that may raise
HostQueries == {"cpu_percent", "cpu_count", "cpu_freq", "virtual_memory",
                "swap_memory", "disk_partitions", "net_if_addrs",
                "net_if_stats", "net_io_counters"}
\* mount points psutil.disk_partitions reports
Mounts == {"/", "/home"}
\* a pattern of host-query failures: the calls that raise, and the mount
\* points whose disk_usage raises
FaultPatterns == [queries : SUBSET HostQueries, mounts : SUBSET Mounts]
NoFaults == [queries |-> {}, mounts |-> {}]
\* the timestamps an on-demand collection may read off the clock
Times == {0, 1}

\* scan_ports: the targets, port lists and configured values of a call
\* (nothing validates them); "" is the empty target
Targets == {"", "host"}
PortNumbers == {80, 443}
PortLists == UNION {[1..n -> PortNumbers] : n \in 0..MaxPorts}
DefaultPorts == <<80, 443, 22, 21, 25, 53>>
Timeouts == {-1, DefaultPortTimeout}
Caps == {1, DefaultMaxConcurrentScans}
\* how one awaited open_connection under wait_for can end; a timeout that is
\* not positive expires before the connection can be established
ProbeOutcomes(t) ==
    IF t > 0 THEN {"connected", "refused", "timeout", "error"}
             ELSE {"timeout", "error"}

(***************************************************************************)
(* _collect_metrics: one pass over the categories inside ONE try block.    *)
(* A raise that no inner try catches leaves the block: the categories      *)
(* after it are not visited.                                               *)
(***************************************************************************)
\* the queries of a category that no inner try/except guards
UnguardedQueries(c) ==
    CASE c = "cpu"     -> {"cpu_percent", "cpu_count"}
      [] c = "memory"  -> {"virtual_memory"}
      [] c = "disk"    -> {"disk_partitions"}
      [] c = "network" -> {"net_if_addrs", "net_if_stats", "net_io_counters"}
      [] OTHER         -> {}

\* the block of category c raises into the outer except
CategoryRaises(c, req, f) == c \in req /\ UnguardedQueries(c) \cap f.queries # {}

\* the order of the four if-blocks
CategoryOrder == <<"cpu", "memory", "disk", "network">>

\* control reaches the i-th if-block: no earlier block raised
Reached(i, req, f) == \A j \in 1..(i - 1) : ~CategoryRaises(CategoryOrder[j], req, f)

\* mutant: a block that raises records its category as an error entry
BlockKeysErrorEntry(i, req, f) ==
    LET c == CategoryOrder[i] IN
    IF c \in req /\ Reached(i, req, f)
    THEN IF c = "memory" /\ ~CategoryRaises(c, req, f) /\ "swap_memory" \notin f.queries
         THEN {"memory", "swap"}
         ELSE {c}
    ELSE {}

\* the keys block i adds to metrics["metrics"]
BlockKeys(i, req, f) ==
    LET c == CategoryOrder[i] IN
    IF c \in req /\ Reached(i, req, f) /\ ~CategoryRaises(c, req, f)
    THEN IF c = "memory" /\ "swap_memory" \notin f.queries
         THEN {"memory", "swap"}
         ELSE {c}
    ELSE {}

\* mutant: the disk loop has no inner try, one failing disk_usage ends it
\* and leaves the records gathered so far unassigned
CollectMetricsDiskLoopUnguarded(req, f, now) ==
    LET keys == UNION {BlockKeys(i, req, f) : i \in 1..Len(CategoryOrder)}
    IN [timestamp |-> now,
        keys      |-> keys,
        frequency |-> "cpu" \in keys /\ "cpu_freq" \notin f.queries,
        disk      |-> IF "disk" \in keys /\ f.mounts = {} THEN Mounts ELSE {},
        error     |-> \E i \in 1..Len(CategoryOrder) :
                         Reached(i, req, f) /\ CategoryRaises(CategoryOrder[i], req, f)]

\* lines 52-180
CollectMetrics(req, f, now) ==
    LET keys == UNION {BlockKeys(i, req, f) : i \in 1..Len(CategoryOrder)}
    IN [timestamp |-> now,
        keys      |-> keys,
        frequency |-> "cpu" \in keys /\ "cpu_freq" \notin f.queries,
        disk      |-> IF "disk" \in keys THEN Mounts \ f.mounts ELSE {},
        error     |-> \E i \in 1..Len(CategoryOrder) :
                         Reached(i, req, f) /\ CategoryRaises(CategoryOrder[i], req, f)]

NoSnapshot == [timestamp |-> -1, keys |-> {}, frequency |-> FALSE, disk |-> {},
               error |-> FALSE]

\* the days values get_metrics_history is called with (default 1); the files
\* of earlier days do not exist in a data directory created today
Days == {-1, 0, 1, 2}

\* the failure patterns a background tick is run against
LoopFaults == {NoFaults, [queries |-> {"virtual_memory"}, mounts |-> {}]}

(***************************************************************************)
(* State.                                                                  *)
(***************************************************************************)
VARIABLES
    monitoring_enabled, \* SystemMonitor.monitoring_enabled (config)
    interval,           \* SystemMonitor.interval (config)
    metrics,            \* SystemMonitor.metrics (config), as a set
    running,            \* SystemMonitor.running
    cpc,                \* cpc[c]: where caller c stands inside start()
    lpc,                \* lpc[l]: where loop thread l stands in _monitor_loop
    snap,               \* snap[l]: the local `metrics` of the tick of l
    data,               \* data[l]: the local `data` of _save_metrics of l, each snapshot by its timestamp
    tickFailed,         \* tickFailed[l]: collection or persistence of this tick failed (and was logged)
    delay,              \* delay[l]: the argument of the time.sleep l is in
    clock,              \* datetime.now(), counted in collections
    file,               \* today's metrics_<date>.json, each snapshot by its timestamp
    spawned,            \* threads started since the last stop() (history)
    startCalls,         \* start() calls returned since the last stop(), 2 = two or more (history)
    everStopped,        \* stop() has been called (history)
    audit,              \* the saves that return without error are being recorded in `saved`
    saved,              \* the timestamps whose _save_metrics returned without error, in that order (history)
    savedSinceStop,     \* savedSinceStop[l]: the saves of loop l that returned without error since the last stop() (history)
    latest,             \* what the last get_latest_metrics() returned
    host,               \* the failure pattern the host shows a foreground collection
    collected,          \* get_latest_metrics() has returned (history)
    returned_history,   \* what the last get_metrics_history() met in today's file and returned
    target,             \* scan_ports: the argument target
    ports_given,        \* scan_ports: FALSE when the argument ports is None
    ports,              \* scan_ports: the local ports
    timeout,            \* config features.port_scan.timeout
    max_concurrent_scans, \* config security.max_concurrent_scans
    spc,                \* where the scan_ports coroutine stands
    idx,                \* scan_ports: position of the for loop in ports
    results,            \* scan_ports: the local results
    inflight,           \* positions whose connection attempt has started and is not resolved
    probed,             \* the ports a connection attempt was started for, in order (history)
    conn                \* per attempt, whether the connection was established in time (history)

vars == <<monitoring_enabled, interval, metrics, running, cpc, lpc, snap, data,
          tickFailed, delay, clock, file, spawned, startCalls, everStopped,
          audit, saved, savedSinceStop, latest, host, collected, returned_history, target, ports_given, ports, timeout,
          max_concurrent_scans, spc, idx, results, inflight, probed, conn>>

config == <<monitoring_enabled, interval, metrics>>
loopLocals == <<snap, data, tickFailed, delay>>
history == <<spawned, startCalls, everStopped>>
foreground == <<latest, host, collected, returned_history>>
scanArgs == <<target, ports_given, timeout, max_concurrent_scans>>
scanner == <<scanArgs, ports, spc, idx, results, inflight, probed, conn>>

AbsentFile == [state |-> "absent", data |-> <<>>]
\* get_metrics_history() has not been called
NoHistory == [store |-> "none", snapshots |-> <<>>]

\* loop threads started and not yet exited
ActiveLoops == {l \in Loops : lpc[l] # "idle"}
FreeSlots == {l \in Loops : lpc[l] = "idle"}
\* callers between the test of start() and its Thread.start()
Starting == {c \in Callers : cpc[c] # "idle"}

\* SystemMonitor.__init__, with the state of the collaborators around it
InitState ==
    /\ running = FALSE
    /\ cpc = [c \in Callers |-> "idle"]
    /\ lpc = [l \in Loops |-> "idle"]
    /\ snap = [l \in Loops |-> NoSnapshot]
    /\ data = [l \in Loops |-> <<>>]
    /\ tickFailed = [l \in Loops |-> FALSE]
    /\ delay = [l \in Loops |-> 0]
    /\ file = AbsentFile
    /\ spawned = 0
    /\ startCalls = 0
    /\ everStopped = FALSE
    /\ saved = <<>>
    /\ savedSinceStop = [l \in Loops |-> 0]
    /\ latest = NoSnapshot
    /\ collected = FALSE
    /\ returned_history = NoHistory
    /\ spc = "idle"
    /\ idx = 0
    /\ results = <<>>
    /\ inflight = {}
    /\ probed = <<>>
    /\ conn = <<>>

\* no scan is asked for: the arguments of a call that is never made
NoScan ==
    /\ target = "host"
    /\ ports_given = TRUE
    /\ ports = <<>>
    /\ timeout = DefaultPortTimeout
    /\ max_concurrent_scans = DefaultMaxConcurrentScans

Init ==
    /\ InitState
    /\ NoScan
    /\ audit = FALSE
    /\ monitoring_enabled \in BOOLEAN
    /\ interval \in Intervals
    /\ metrics = DefaultMetrics
    /\ host = NoFaults
    /\ clock = 0

(***************************************************************************)
(* start() and stop().                                                     *)
(***************************************************************************)
Bump(n) == IF n < 2 THEN n + 1 ELSE n

\* mutant: start() does not test `running`
StartGuardIgnoresRunning == monitoring_enabled

\* mutant: start() does not test `monitoring_enabled`
StartGuardIgnoresEnabled == ~running

\* the guard of start(): `if self.monitoring_enabled and not self.running`
StartGuard == monitoring_enabled /\ ~running

\* start(), line 29: the test; a false test returns
StartCheck(c) ==
    /\ cpc[c] = "idle"
    /\ \/ /\ StartGuard
          /\ Cardinality(FreeSlots) > Cardinality(Starting)
          /\ cpc' = [cpc EXCEPT ![c] = "start_set"]
          /\ UNCHANGED startCalls
       \/ /\ ~StartGuard
          /\ startCalls' = Bump(startCalls)
          /\ UNCHANGED cpc
    /\ UNCHANGED <<scanner, audit, savedSinceStop, config, saved, running, lpc, loopLocals, clock, file, spawned,
                   everStopped, foreground>>

\* start(), line 30: self.running = True
StartSet(c) ==
    /\ cpc[c] = "start_set"
    /\ running' = TRUE
    /\ cpc' = [cpc EXCEPT ![c] = "start_thread"]
    /\ UNCHANGED <<scanner, audit, savedSinceStop, config, saved, lpc, loopLocals, clock, file, history, foreground>>

\* mutant: the Thread object is created but never started
StartThreadNeverStarted(c) ==
    /\ cpc[c] = "start_thread"
    /\ cpc' = [cpc EXCEPT ![c] = "idle"]
    /\ startCalls' = Bump(startCalls)
    /\ UNCHANGED <<scanner, audit, savedSinceStop, config, saved, running, lpc, loopLocals, clock, file, spawned,
                   everStopped, foreground>>

\* start(), lines 31-34: the thread is created and started; start() returns
StartThread(c) ==
    /\ cpc[c] = "start_thread"
    /\ \E l \in FreeSlots :
          /\ \A k \in FreeSlots : l <= k
          /\ lpc' = [lpc EXCEPT ![l] = "while"]
    /\ cpc' = [cpc EXCEPT ![c] = "idle"]
    /\ spawned' = spawned + 1
    /\ startCalls' = Bump(startCalls)
    /\ UNCHANGED <<scanner, audit, savedSinceStop, config, saved, running, loopLocals, clock, file, everStopped,
                   foreground>>

\* stop(), lines 36-39
Stop(c) ==
    /\ cpc[c] = "idle"
    /\ running' = FALSE
    /\ spawned' = 0
    /\ startCalls' = 0
    /\ everStopped' = TRUE
    /\ savedSinceStop' = [l \in Loops |-> 0]
    /\ UNCHANGED <<scanner, audit, config, saved, cpc, lpc, loopLocals, clock, file, foreground>>

CallerNext(c) == StartCheck(c) \/ StartSet(c) \/ StartThread(c) \/ Stop(c)

(***************************************************************************)
(* _monitor_loop and the _save_metrics it calls.                           *)
(***************************************************************************)
\* loops that passed the while test and have not yet taken their timestamp
AboutToCollect == {l \in Loops : lpc[l] = "collect"}

\* the locals of a tick are dead once _save_metrics has returned
DropTick(l) ==
    /\ snap' = [snap EXCEPT ![l] = NoSnapshot]
    /\ data' = [data EXCEPT ![l] = <<>>]

\* mutant: no wait between two ticks
WaitAfterTickNoWait(l) ==
    /\ lpc' = [lpc EXCEPT ![l] = "while"]
    /\ delay' = [delay EXCEPT ![l] = 0]

\* the wait that ends an iteration, lines 47-50: time.sleep(self.interval)
\* raises ValueError on a negative interval, and the except branch of the loop
\* logs and sleeps the backoff
WaitAfterTick(l) ==
    IF interval >= 0
    THEN /\ lpc' = [lpc EXCEPT ![l] = "sleep"]
         /\ delay' = [delay EXCEPT ![l] = interval]
    ELSE /\ lpc' = [lpc EXCEPT ![l] = "backoff"]
         /\ delay' = [delay EXCEPT ![l] = BackoffSeconds]

\* mutant: `while True`, the flag is never read
LoopWhileIgnoresFlag(l) ==
    /\ lpc[l] = "while"
    /\ clock + Cardinality(AboutToCollect) < MaxTicks
    /\ lpc' = [lpc EXCEPT ![l] = "collect"]
    /\ tickFailed' = [tickFailed EXCEPT ![l] = FALSE]
    /\ delay' = [delay EXCEPT ![l] = 0]
    /\ UNCHANGED <<scanner, audit, savedSinceStop, config, saved, running, cpc, snap, data, clock, file, history,
                   foreground>>

\* line 43: `while self.running`; a false test ends the thread
LoopWhile(l) ==
    /\ lpc[l] = "while"
    /\ \/ /\ running
          /\ clock + Cardinality(AboutToCollect) < MaxTicks
          /\ lpc' = [lpc EXCEPT ![l] = "collect"]
       \/ /\ ~running
          /\ lpc' = [lpc EXCEPT ![l] = "idle"]
    /\ tickFailed' = [tickFailed EXCEPT ![l] = FALSE]
    /\ delay' = [delay EXCEPT ![l] = 0]
    /\ UNCHANGED <<scanner, audit, savedSinceStop, config, saved, running, cpc, snap, data, clock, file, history,
                   foreground>>

\* line 45: metrics = self._collect_metrics(); it returns whatever the
\* failure pattern f let it gather, having logged the error of a raise
LoopCollect(l, f) ==
    /\ lpc[l] = "collect"
    /\ snap' = [snap EXCEPT ![l] = CollectMetrics(metrics, f, clock)]
    /\ tickFailed' = [tickFailed EXCEPT ![l] = CollectMetrics(metrics, f, clock).error]
    /\ clock' = clock + 1
    /\ lpc' = [lpc EXCEPT ![l] = "save_read"]
    /\ UNCHANGED <<scanner, audit, savedSinceStop, config, saved, running, cpc, data, delay, file, history, foreground>>

\* mutant: a store that cannot be read is started afresh
LoopSaveReadStartsAfresh(l) ==
    /\ lpc[l] = "save_read"
    /\ data' = [data EXCEPT ![l] = IF file.state = "json" THEN file.data ELSE <<>>]
    /\ lpc' = [lpc EXCEPT ![l] = "save_open"]
    /\ UNCHANGED <<scanner, audit, savedSinceStop, config, saved, running, cpc, clock, file, history, foreground,
                   snap, tickFailed, delay>>

\* _save_metrics, lines 188-194: the existing list is read, or the read
\* raises (partial content is no JSON; any file may be unreadable) and
\* the except of _save_metrics logs it and returns
LoopSaveRead(l) ==
    /\ lpc[l] = "save_read"
    /\ \/ /\ file.state = "absent"
          /\ data' = [data EXCEPT ![l] = <<>>]
          /\ lpc' = [lpc EXCEPT ![l] = "save_open"]
          /\ UNCHANGED <<snap, tickFailed, delay>>
       \/ /\ file.state = "json"
          /\ data' = [data EXCEPT ![l] = file.data]
          /\ lpc' = [lpc EXCEPT ![l] = "save_open"]
          /\ UNCHANGED <<snap, tickFailed, delay>>
       \/ /\ file.state # "absent"
          /\ tickFailed' = [tickFailed EXCEPT ![l] = TRUE]
          /\ DropTick(l)
          /\ WaitAfterTick(l)
    /\ UNCHANGED <<scanner, audit, savedSinceStop, config, saved, running, cpc, clock, file, history, foreground>>

\* mutant: _save_metrics has no try/except and the loop none either, so
\* a failing open ends the thread
LoopSaveOpenUncaught(l) ==
    /\ lpc[l] = "save_open"
    /\ \/ /\ file' = [state |-> "partial", data |-> <<>>]
          /\ data' = [data EXCEPT ![l] = Append(data[l], snap[l].timestamp)]
          /\ lpc' = [lpc EXCEPT ![l] = "save_dump"]
          /\ UNCHANGED <<snap, tickFailed, delay>>
       \/ /\ tickFailed' = [tickFailed EXCEPT ![l] = TRUE]
          /\ DropTick(l)
          /\ lpc' = [lpc EXCEPT ![l] = "idle"]
          /\ UNCHANGED <<file, delay>>
    /\ UNCHANGED <<scanner, audit, savedSinceStop, config, saved, running, cpc, clock, history, foreground>>

\* _save_metrics, lines 194-196: data.append(metrics); open(metrics_file, 'w')
\* truncates the file, or raises and leaves it as it was
LoopSaveOpen(l) ==
    /\ lpc[l] = "save_open"
    /\ \/ /\ file' = [state |-> "partial", data |-> <<>>]
          /\ data' = [data EXCEPT ![l] = Append(data[l], snap[l].timestamp)]
          /\ lpc' = [lpc EXCEPT ![l] = "save_dump"]
          /\ UNCHANGED <<snap, tickFailed, delay>>
       \/ /\ tickFailed' = [tickFailed EXCEPT ![l] = TRUE]
          /\ DropTick(l)
          /\ WaitAfterTick(l)
          /\ UNCHANGED file
    /\ UNCHANGED <<scanner, audit, savedSinceStop, config, saved, running, cpc, clock, history, foreground>>

\* _save_metrics, line 197: json.dump writes the whole list and the file is
\* closed, or it raises part-way and the file keeps partial content
LoopSaveDump(l) ==
    /\ lpc[l] = "save_dump"
    /\ \/ /\ file' = [state |-> "json", data |-> data[l]]
          /\ saved' = IF audit THEN Append(saved, snap[l].timestamp) ELSE saved
          /\ savedSinceStop' = IF audit THEN [savedSinceStop EXCEPT ![l] = @ + 1]
                                         ELSE savedSinceStop
          /\ UNCHANGED tickFailed
       \/ /\ file' = [state |-> "partial", data |-> <<>>]
          /\ tickFailed' = [tickFailed EXCEPT ![l] = TRUE]
          /\ UNCHANGED <<saved, savedSinceStop>>
    /\ DropTick(l)
    /\ WaitAfterTick(l)
    /\ UNCHANGED <<scanner, audit, config, running, cpc, clock, history, foreground>>

\* line 47: time.sleep(self.interval) returns
LoopWake(l) ==
    /\ lpc[l] = "sleep"
    /\ lpc' = [lpc EXCEPT ![l] = "while"]
    /\ UNCHANGED <<scanner, audit, savedSinceStop, config, saved, running, cpc, loopLocals, clock, file, history,
                   foreground>>

\* line 50: time.sleep(5) returns
LoopBackoffWake(l) ==
    /\ lpc[l] = "backoff"
    /\ lpc' = [lpc EXCEPT ![l] = "while"]
    /\ UNCHANGED <<scanner, audit, savedSinceStop, config, saved, running, cpc, loopLocals, clock, file, history,
                   foreground>>

LoopNext(l) ==
    \/ LoopWhile(l)
    \/ \E f \in LoopFaults : LoopCollect(l, f)
    \/ LoopSaveRead(l)
    \/ LoopSaveOpen(l)
    \/ LoopSaveDump(l)
    \/ LoopWake(l)
    \/ LoopBackoffWake(l)

(***************************************************************************)
(* get_latest_metrics(): one collection in the calling thread.             *)
(***************************************************************************)
\* mutant: the on-demand collection stores its snapshot as a tick does
GetLatestMetricsAndSave ==
    /\ latest' = CollectMetrics(metrics, host, clock)
    /\ collected' = TRUE
    /\ file' = [state |-> "json",
                data |-> Append(IF file.state = "json" THEN file.data ELSE <<>>, clock)]
    /\ UNCHANGED <<scanner, audit, savedSinceStop, config, saved, running, cpc, lpc, loopLocals, clock, history,
                   host, returned_history>>

\* lines 201-203: return self._collect_metrics()
GetLatestMetrics ==
    /\ latest' = CollectMetrics(metrics, host, clock)
    /\ collected' = TRUE
    /\ UNCHANGED <<scanner, audit, savedSinceStop, config, saved, running, cpc, lpc, loopLocals, clock, file, history,
                   host, returned_history>>

(***************************************************************************)
(* get_metrics_history(days): one read of the day file in the caller.      *)
(***************************************************************************)
\* lines 207-217 for today's file as it stands: no pass of the loop for
\* days < 1; a file that is absent is skipped; truncated or half-written
\* content makes json.load raise, which is logged; a whole file is parsed,
\* unless it cannot be opened
HistoryReads(days) ==
    IF days < 1 THEN {[store |-> "unread", snapshots |-> <<>>]}
    ELSE IF file.state = "absent" THEN {[store |-> "absent", snapshots |-> <<>>]}
    ELSE IF file.state = "partial" THEN {[store |-> "partial", snapshots |-> <<>>]}
    ELSE {[store |-> "json", snapshots |-> file.data],
          [store |-> "unreadable", snapshots |-> <<>>]}

\* mutant: a file that does not parse is removed by the reader
GetMetricsHistoryRepairs(days) ==
    /\ returned_history' \in HistoryReads(days)
    /\ file' = IF days >= 1 /\ file.state = "partial" THEN AbsentFile ELSE file
    /\ UNCHANGED <<scanner, audit, savedSinceStop, config, saved, running, cpc, lpc, loopLocals, clock,
                   history, latest, host, collected>>

\* lines 205-217
GetMetricsHistory(days) ==
    /\ returned_history' \in HistoryReads(days)
    /\ UNCHANGED <<scanner, audit, savedSinceStop, config, saved, running, cpc, lpc, loopLocals, clock, file,
                   history, latest, host, collected>>

(***************************************************************************)
(* scan_ports(target, ports): one coroutine, a step per await.             *)
(***************************************************************************)
monitor == <<audit, config, saved, savedSinceStop, running, cpc, lpc, loopLocals, clock, file, history,
             foreground>>

\* lines 135-138: the default list for ports=None, results = []
ScanCall ==
    /\ spc = "idle"
    /\ ports' = IF ports_given THEN ports ELSE DefaultPorts
    /\ results' = <<>>
    /\ idx' = 0
    /\ spc' = "loop"
    /\ UNCHANGED <<monitor, scanArgs, inflight, probed, conn>>

\* mutant: a port already probed in this scan is skipped
ProbeStartSkipsSeen ==
    /\ spc = "loop"
    /\ idx < Len(ports)
    /\ idx' = idx + 1
    /\ IF \E i \in 1..Len(probed) : probed[i] = ports[idx + 1]
          THEN UNCHANGED <<inflight, probed, spc>>
          ELSE /\ inflight' = inflight \cup {idx + 1}
               /\ probed' = Append(probed, ports[idx + 1])
               /\ spc' = "connecting"
    /\ UNCHANGED <<monitor, scanArgs, ports, results, conn>>

\* lines 142-147: the next port of the for loop, open_connection under wait_for
ProbeStart ==
    /\ spc = "loop"
    /\ idx < Len(ports)
    /\ idx' = idx + 1
    /\ inflight' = inflight \cup {idx + 1}
    /\ probed' = Append(probed, ports[idx + 1])
    /\ spc' = "connecting"
    /\ UNCHANGED <<monitor, scanArgs, ports, results, conn>>

\* mutant: a probe that fails ends the scan
ProbeResolveAborts ==
    /\ spc = "connecting"
    /\ \E o \in ProbeOutcomes(timeout) :
          /\ conn' = Append(conn, o = "connected")
          /\ spc' = IF o = "connected" THEN "closing" ELSE "done"
    /\ inflight' = inflight \ {idx}
    /\ UNCHANGED <<monitor, scanArgs, ports, idx, results, probed>>

\* mutant: a probe that timed out is left running
ProbeResolveLeavesInflight ==
    /\ spc = "connecting"
    /\ \E o \in ProbeOutcomes(timeout) :
          /\ conn' = Append(conn, o = "connected")
          /\ inflight' = IF o = "timeout" THEN inflight ELSE inflight \ {idx}
          /\ IF o = "connected"
                THEN spc' = "closing" /\ UNCHANGED results
                ELSE /\ spc' = "loop"
                     /\ results' = Append(results, [port |-> ports[idx], state |-> "closed"])
    /\ UNCHANGED <<monitor, scanArgs, ports, idx, probed>>

\* lines 144-147, 151-152: the await returns the streams, or raises into the
\* bare except (wait_for has cancelled the attempt when it times out)
ProbeResolve ==
    /\ spc = "connecting"
    /\ \E o \in ProbeOutcomes(timeout) :
          /\ conn' = Append(conn, o = "connected")
          /\ IF o = "connected"
                THEN spc' = "closing" /\ UNCHANGED results
                ELSE /\ spc' = "loop"
                     /\ results' = Append(results, [port |-> ports[idx], state |-> "closed"])
    /\ inflight' = inflight \ {idx}
    /\ UNCHANGED <<monitor, scanArgs, ports, idx, probed>>

\* lines 148-152: writer.close(), await writer.wait_closed(); the append of
\* "open" is inside the try, after the await, so a raise there lands in the
\* same bare except
ProbeClose ==
    /\ spc = "closing"
    /\ \E closed_ok \in BOOLEAN :
          results' = Append(results, [port |-> ports[idx],
                                      state |-> IF closed_ok THEN "open" ELSE "closed"])
    /\ spc' = "loop"
    /\ UNCHANGED <<monitor, scanArgs, ports, idx, inflight, probed, conn>>

\* line 155: the for loop is exhausted, return results
ScanReturn ==
    /\ spc = "loop"
    /\ idx = Len(ports)
    /\ spc' = "done"
    /\ UNCHANGED <<monitor, scanArgs, ports, idx, results, inflight, probed, conn>>

(***************************************************************************)
(* Specifications.                                                         *)
(***************************************************************************)
\* the sampler with two foreground threads
Next ==
    \/ \E c \in Callers : CallerNext(c)
    \/ \E l \in Loops : LoopNext(l)

Spec == Init /\ [][Next]_vars

\* the sampler driven from the single control thread
NextSeq ==
    \/ CallerNext("main")
    \/ \E l \in Loops : LoopNext(l)

SpecSeq == Init /\ [][NextSeq]_vars

\* threads are scheduled and sleeps end: every loop thread keeps stepping,
\* and a caller inside start() finishes it
Fairness ==
    /\ \A l \in Loops : WF_vars(LoopNext(l))
    /\ \A c \in Callers : WF_vars(StartSet(c) \/ StartThread(c))

SpecFair == Spec /\ Fairness

SpecSeqFair == SpecSeq /\ Fairness

\* one caller of start() and stop(), the loops, and on-demand collections
NextLatest == NextSeq \/ GetLatestMetrics

SpecLatest == Init /\ [][NextLatest]_vars

\* one caller, with the record of the saves that returned without error
InitStore ==
    /\ InitState
    /\ NoScan
    /\ audit = TRUE
    /\ monitoring_enabled = TRUE
    /\ interval \in Intervals
    /\ metrics = DefaultMetrics
    /\ host = NoFaults
    /\ clock = 0

SpecStore == InitStore /\ [][NextSeq]_vars

\* the same, with history reads in between
NextHistory == NextSeq \/ \E d \in Days : GetMetricsHistory(d)

SpecHistory == Init /\ [][NextHistory]_vars

SpecHistoryStore == InitStore /\ [][NextHistory]_vars

\* single snapshots, for every requested set and every failure pattern
InitCollect ==
    /\ InitState
    /\ NoScan
    /\ audit = FALSE
    /\ monitoring_enabled = TRUE
    /\ interval = DefaultInterval
    /\ metrics \in SUBSET MetricNames
    /\ host \in FaultPatterns
    /\ clock \in Times

NextCollect == GetLatestMetrics

SpecCollect == InitCollect /\ [][NextCollect]_vars

\* one scan, for every target, port list and configured timeout and cap
InitScan ==
    /\ InitState
    /\ audit = FALSE
    /\ monitoring_enabled = TRUE
    /\ interval = DefaultInterval
    /\ metrics = DefaultMetrics
    /\ host = NoFaults
    /\ clock = 0
    /\ target \in Targets
    /\ ports_given \in BOOLEAN
    /\ ports \in IF ports_given THEN PortLists ELSE {<<>>}
    /\ timeout \in Timeouts
    /\ max_concurrent_scans \in Caps

NextScan == ScanCall \/ ProbeStart \/ ProbeResolve \/ ProbeClose \/ ScanReturn

SpecScan == InitScan /\ [][NextScan]_vars

(***************************************************************************)
(* Properties.                                                             *)
(***************************************************************************)
\* loop l is in the wait that ends an iteration
Waiting(l) == lpc[l] \in {"sleep", "backoff"}
\* the bound of the model still lets a loop begin a tick
BudgetLeft == clock + Cardinality(AboutToCollect) < MaxTicks

\* C1: after any sequence of start() and stop() calls of one thread, at most
\* one _monitor_loop is started and not yet exited.
C1_AtMostOneLoop == Cardinality(ActiveLoops) <= 1

\* C2: however two start() calls interleave, test and set of `running` act as
\* one step: no two threads are started without a stop() in between.
C2_OneLoopPerStart == spawned <= 1

\* C3: two start() calls in succession from one thread, no stop() between
\* them, start exactly one loop thread and leave running = True.
C3_StartTwice ==
    (monitoring_enabled /\ startCalls = 2 /\ Starting = {})
        => (spawned = 1 /\ running /\ ActiveLoops # {})

C3_Witness ==
    /\ monitoring_enabled /\ startCalls = 2 /\ Starting = {}
    /\ spawned = 1 /\ running

\* C4: a loop thread ends only at its while test, never inside a tick or a
\* wait, and once running stays False every loop thread ends.
C4_StopEndsLoops ==
    /\ [][\A l \in Loops : (lpc[l] # "idle" /\ lpc'[l] = "idle") => lpc[l] = "while"]_vars
    /\ (<>[](~running) => <>[](ActiveLoops = {}))

C4_Witness == everStopped /\ ~running /\ ActiveLoops = {} /\ clock > 0

\* start() has returned after a stop(), on an enabled monitor
RestartDone ==
    monitoring_enabled /\ everStopped /\ startCalls >= 1 /\ running /\ Starting = {}

\* C5: once start() has returned after a stop() on an enabled monitor, a loop
\* passes its while test and goes on to collect, unless stop() is called again.
C5_RestartTicks ==
    (RestartDone /\ BudgetLeft) ~> (AboutToCollect # {} \/ ~running)

C5_Witness == RestartDone /\ clock > 0 /\ \E l \in Loops : lpc[l] = "save_dump"

\* C6: the step on which a tick fails never ends the loop thread, and a loop
\* waiting after a failed tick begins a further tick unless running turns False.
C6_FailedTickContinues ==
    /\ [][\A l \in Loops : (lpc[l] \notin {"idle", "while"}) => lpc'[l] # "idle"]_vars
    /\ \A l \in Loops :
          (Waiting(l) /\ (tickFailed[l] \/ lpc[l] = "backoff"))
              ~> (lpc[l] = "collect" \/ ~running \/ ~BudgetLeft)

C6_Witness == \E l \in Loops : Waiting(l) /\ tickFailed[l] /\ running /\ BudgetLeft

\* C7: a loop that waits after a tick whose collection or persistence failed
\* waits the fixed backoff.
C7_FailedTickBacksOff ==
    \A l \in Loops :
        (Waiting(l) /\ tickFailed[l]) => (lpc[l] = "backoff" /\ delay[l] = BackoffSeconds)

\* C8: the wait after a failed tick is strictly shorter than the configured
\* interval, the wait after a successful tick.
C8_BackoffShorter ==
    \A l \in Loops :
        (Waiting(l) /\ (tickFailed[l] \/ lpc[l] = "backoff")) => delay[l] < interval

\* C9: the keys of a returned snapshot are among the requested categories.
C9_KeysWithinRequested == collected => latest.keys \subseteq metrics

\* C10: a requested category whose own queries succeed is in the snapshot,
\* whatever happens to the other categories.
C10_CategoriesIndependent ==
    collected =>
        \A c \in metrics \cap Categories :
            (UnguardedQueries(c) \cap host.queries = {}) => c \in latest.keys

\* every query that no inner try guards, over all categories
AllUnguarded == UNION {UnguardedQueries(c) : c \in Categories}

\* C11: when disk is requested and collected, its entry holds exactly the
\* mount points whose disk_usage succeeded, whichever others failed.
C11_DiskKeepsOtherMounts ==
    /\ (collected /\ "disk" \in latest.keys) => latest.disk = Mounts \ host.mounts
    /\ (collected /\ "disk" \in metrics /\ AllUnguarded \cap host.queries = {})
           => "disk" \in latest.keys

C11_Witness ==
    /\ collected /\ "disk" \in latest.keys
    /\ host.mounts = {"/"} /\ latest.disk = {"/home"}

\* C12: when every requested category fails, the snapshot returned has the
\* timestamp of the call and an empty metrics mapping.
C12_TotalFailureEmptySnapshot ==
    (collected /\ \A c \in metrics \cap Categories : CategoryRaises(c, metrics, host))
        => (latest.keys = {} /\ latest.timestamp = clock)

C12_Witness ==
    /\ collected /\ metrics = DefaultMetrics
    /\ \A c \in Categories : CategoryRaises(c, metrics, host)
    /\ latest.keys = {} /\ latest.timestamp = clock /\ latest.error

\* loop l is inside _save_metrics
Saving(l) == lpc[l] \in {"save_read", "save_open", "save_dump"}

\* C19: in one loop a tick runs collect, then persist, then the wait; the
\* next while test and collection come only after that wait has ended, and
\* the wait after an undisturbed tick is the whole interval.
C19_TickOrder ==
    [][\A l \in Loops :
          /\ (lpc'[l] = "collect" /\ lpc[l] # "collect") => lpc[l] = "while"
          /\ (lpc'[l] = "save_read" /\ lpc[l] # "save_read") => lpc[l] = "collect"
          /\ (Waiting(l)' /\ ~Waiting(l)) => Saving(l)
          /\ (lpc'[l] = "while" /\ lpc[l] # "while") => (Waiting(l) \/ lpc[l] = "idle")
          /\ (lpc'[l] = "sleep" /\ lpc[l] # "sleep") => (interval >= 0 /\ delay'[l] = interval)
      ]_vars

C19_Witness ==
    \E l \in Loops : lpc[l] = "collect" /\ clock > 0 /\ file.state = "json" /\ interval >= 0

\* what a reader of today's file gets
Stored == IF file.state = "json" THEN file.data ELSE <<>>

\* C20: whenever no write is under way, today's store holds exactly the
\* snapshots whose save returned without error, once each, in that order.
C20_NoSnapshotLost == (\A l \in Loops : lpc[l] # "save_dump") => Stored = saved

\* scan_ports has returned its report
Returned == spc = "done"
\* the ports of the report, in the order of the report
ReportPorts == [i \in 1..Len(results) |-> results[i].port]

\* C13: a scan that has returned reports one entry per port of the list, the
\* i-th for the i-th port, whatever the probes' outcomes were; and a scan
\* never stops before the list is exhausted.
C13_OneEntryPerPort ==
    /\ Returned => ReportPorts = ports
    /\ idx = Len(results) + Cardinality(inflight) + (IF spc = "closing" THEN 1 ELSE 0)
    /\ ENABLED NextScan \/ Returned

C13_Witness ==
    /\ Returned /\ Len(ports) = MaxPorts
    /\ results[1].state = "closed" /\ ~conn[1]
    /\ results[2].state = "open"

\* positions of the list that hold a port some other position holds too
Repeated == {i \in 1..Len(ports) : \E j \in 1..Len(ports) : j # i /\ ports[j] = ports[i]}

\* C14: a port that occurs more than once in the list is probed once per
\* occurrence, and the report has an entry of its own for each occurrence,
\* at the position of the occurrence.
C14_DuplicatesKept ==
    Returned =>
        /\ probed = ports
        /\ Len(conn) = Len(ports)
        /\ \A i \in Repeated : i <= Len(results) /\ results[i].port = ports[i]
        /\ Len(results) = Len(ports)

C14_Witness ==
    /\ Returned /\ Repeated = {1, 2}
    /\ probed = ports
    /\ results[1].state # results[2].state

\* C15: a port is reported open exactly when its connection was established
\* within the timeout, whatever happens afterwards.
C15_OpenIffConnected ==
    Returned => \A i \in 1..Len(results) : (results[i].state = "open") <=> conn[i]

\* C16: while a probe is in flight and later ports remain, the probe of the
\* next port can start.
C16_ProbesConcurrent ==
    (inflight # {} /\ idx < Len(ports)) => ENABLED ProbeStart

\* C17: the probes in flight never outnumber security.max_concurrent_scans.
C17_InFlightWithinCap == Cardinality(inflight) <= max_concurrent_scans

C17_Witness ==
    /\ Cardinality(inflight) = max_concurrent_scans
    /\ idx < Len(ports)
    /\ results # <<>>

\* an argument the scan contract calls invalid
InvalidScanArgs == target = "" \/ timeout < 0

\* C18: a scan with an empty target or a negative timeout returns no report.
C18_InvalidArgsFailFast == InvalidScanArgs => ~Returned

\* C25: with monitoring disabled, whatever start() and stop() calls are
\* made, running stays False, no loop thread exists and nothing is stored.
C25_DisabledStartNoOp ==
    ~monitoring_enabled =>
        /\ ~running
        /\ ActiveLoops = {}
        /\ Starting = {}
        /\ spawned = 0
        /\ file = AbsentFile

C25_Witness == ~monitoring_enabled /\ everStopped /\ startCalls = 2

\* C26: a _save_metrics whose read of the day file fails ends there: the
\* loop goes on to its wait, the file is what it was, and the snapshot of
\* the tick is not recorded; a malformed file always makes the read fail.
C26_ReadFailureKeepsStore ==
    [][\A l \in Loops :
          /\ (lpc[l] = "save_read" /\ Waiting(l)')
                => (file' = file /\ saved' = saved /\ tickFailed'[l]
                      /\ snap'[l] = NoSnapshot /\ data'[l] = <<>>)
          /\ (lpc[l] = "save_read" /\ lpc'[l] # "save_read" /\ file.state = "partial")
                => Waiting(l)'
      ]_vars

C26_Witness ==
    \E l \in Loops :
        /\ Waiting(l) /\ tickFailed[l]
        /\ \A m \in Loops \ {l} : lpc[m] = "idle"
        /\ file.state = "partial" /\ saved = <<>> /\ clock >= 2

\* stop() has been called and no start() was begun or made since
StoppedForGood == everStopped /\ startCalls = 0 /\ Starting = {}

\* C24: the step of stop() changes only the flag, never where a loop stands
\* or what its tick holds; and after a stop() with no later start() each
\* loop stores at most one further snapshot.
C24_StopBounded ==
    /\ [][(running /\ ~running') => UNCHANGED <<lpc, loopLocals, file>>]_vars
    /\ [](StoppedForGood => \A l \in Loops : savedSinceStop[l] <= 1)

C24_Witness ==
    /\ StoppedForGood
    /\ \E l \in Loops : savedSinceStop[l] = 1 /\ lpc[l] = "idle"

\* C22: a step that returns an on-demand snapshot leaves the running flag,
\* every loop thread and its tick, every start() in progress and the file as
\* they were, and what it returns is a collection made at that instant.
C22_LatestOnlyReturns ==
    [][(latest' # latest \/ collected' # collected)
          => /\ UNCHANGED <<running, lpc, cpc, loopLocals, file, clock, history>>
             /\ collected'
             /\ latest' = CollectMetrics(metrics, host, clock)
      ]_vars

C22_Witness ==
    /\ collected /\ running /\ latest.timestamp = clock /\ clock > 0
    /\ \E l \in Loops : lpc[l] = "save_dump"

\* a step on which get_metrics_history() returned something new
HistoryReturned == returned_history' # returned_history
\* the snapshots persisted in today's file
Persisted == {Stored[i] : i \in 1..Len(Stored)}

\* C21: a history read of a file that can be opened, made while a save is
\* writing it, returns the snapshots persisted so far, whole: never what a
\* truncated or half-written file yields.
C21_ReadsWholeStore ==
    [][(HistoryReturned /\ returned_history'.store \in {"absent", "json", "partial"}
            /\ \E l \in Loops : lpc[l] = "save_dump")
          => returned_history'.snapshots = saved
      ]_vars

\* C23: a history read leaves the file, the flag, the loops and the callers
\* of start() as they were, and every snapshot it returns is one persisted
\* in the file.
C23_HistoryPureRead ==
    [][HistoryReturned
          => /\ UNCHANGED <<file, saved, running, lpc, cpc, loopLocals, clock, history>>
             /\ \A i \in 1..Len(returned_history'.snapshots) :
                   returned_history'.snapshots[i] \in Persisted
      ]_vars

C23_Witness ==
    /\ returned_history.store = "json" /\ returned_history.snapshots = Stored
    /\ Stored # <<>> /\ running
    /\ \E l \in Loops : lpc[l] = "save_open"

====
